---- MODULE Spec2Model ----
(***************************************************************************)
(* Model of src/components/clusterprovider/minikube/minikube.ts: the       *)
(* adapter that shells out to the minikube binary (checkPresent,           *)
(* isRunnable, start, stop, status), the module-wide status bar item and   *)
(* the promise returned by each call.                                      *)
(*                                                                         *)
(* Strings are sequences of one-character strings, so that template        *)
(* literals are concatenations, obj[0] of a string is its first character  *)
(* and JSON.parse is a parser of the text.                                 *)
(***************************************************************************)
EXTENDS Integers, Sequences, FiniteSets, TLC

\* Number of call slots: calls of the adapter that may overlap.
NumCalls == 2

Calls == 1..NumCalls

----------------------------------------------------------------------------
\* String literals of the source and of the inputs.

S_empty == <<>>
S_minikube == <<"m", "i", "n", "i", "k", "u", "b", "e">>
S_Stopped == <<"S", "t", "o", "p", "p", "e", "d">>
S_stopped == <<"s", "t", "o", "p", "p", "e", "d">>
S_Running == <<"R", "u", "n", "n", "i", "n", "g">>
S_Configured == <<"C", "o", "n", "f", "i", "g", "u", "r", "e", "d">>
S_help == <<" ", "h", "e", "l", "p">>
S_stop == <<" ", "s", "t", "o", "p">>
S_start == <<" ", "s", "t", "a", "r", "t">>
S_space == <<" ">>
S_vmDriverFlag == <<" ", "-", "-", "v", "m", "-", "d", "r", "i", "v", "e", "r", "=">>
S_statusArgs == <<" ", "s", "t", "a", "t", "u", "s", " ", "-", "-", "f", "o", "r", "m", "a", "t", " ", "'", "[", "\"", "{", "{", ".", "M", "i", "n", "i", "k", "u", "b", "e", "S", "t", "a", "t", "u", "s", "}", "}", "\"", ",", "\"", "{", "{", ".", "C", "l", "u", "s", "t", "e", "r", "S", "t", "a", "t", "u", "s", "}", "}", "\"", ",", "\"", "{", "{", ".", "K", "u", "b", "e", "c", "o", "n", "f", "i", "g", "S", "t", "a", "t", "u", "s", "}", "}", "\"", "]", "'">>
S_foo == <<"-", "-", "f", "o", "o">>
S_hyperkit == <<"h", "y", "p", "e", "r", "k", "i", "t">>
S_driverInFlags == <<"-", "-", "v", "m", "-", "d", "r", "i", "v", "e", "r", "=", "k", "v", "m">>
S_customPath == <<"/", "o", "p", "t", "/", "m", "k">>
S_null == <<"n", "u", "l", "l">>
S_true == <<"t", "r", "u", "e">>
S_false == <<"f", "a", "l", "s", "e">>
S_exitStatus == <<"e", "x", "i", "t", " ", "1">>
S_vmDriverEq == <<"-", "-", "v", "m", "-", "d", "r", "i", "v", "e", "r", "=">>
S_fooStart == <<"-", "-", "f", "o", "o", " ", "s", "t", "a", "r", "t">>
S_fooStartTwoSpaces == <<"-", "-", "f", "o", "o", " ", " ", "s", "t", "a", "r", "t">>
S_hyperkitStart == <<" ", "-", "-", "v", "m", "-", "d", "r", "i", "v", "e", "r", "=", "h", "y", "p", "e", "r", "k", "i", "t", " ", " ", "s", "t", "a", "r", "t">>
S_spawn == <<"E", "N", "O", "E", "N", "T">>

Quoted(s) == <<"\"">> \o s \o <<"\"">>

\* What the tool prints for the --format template of the status command:
\* the three reported strings, each between double quotes, in brackets.
MinikubeFormat(s0, s1, s2) ==
    <<"[">> \o Quoted(s0) \o <<",">> \o Quoted(s1) \o <<",">> \o Quoted(s2) \o <<"]">>

----------------------------------------------------------------------------
\* JavaScript values: what JSON.parse returns and what obj[i] yields.

JUndefined == [k |-> "undefined", s |-> <<>>, a |-> <<>>]
JNull == [k |-> "null", s |-> <<>>, a |-> <<>>]
JString(t) == [k |-> "string", s |-> t, a |-> <<>>]
JNumber(t) == [k |-> "number", s |-> t, a |-> <<>>]
JBoolean(t) == [k |-> "boolean", s |-> t, a |-> <<>>]
JArray(elems) == [k |-> "array", s |-> <<>>, a |-> elems]
JObject == [k |-> "object", s |-> <<>>, a |-> <<>>]

Digits == {"0", "1", "2", "3", "4", "5", "6", "7", "8", "9"}
Whitespace == {" ", "\n", "\t", "\r"}

\* First position >= i of text t that holds no whitespace (Len(t)+1 if none).
RECURSIVE SkipWs(_, _)
SkipWs(t, i) ==
    IF i <= Len(t) /\ t[i] \in Whitespace THEN SkipWs(t, i + 1) ELSE i

\* Position of the double quote closing a string whose content starts at i;
\* 0 when the text ends, or a control character comes, before it.
RECURSIVE CloseQuote(_, _)
CloseQuote(t, i) ==
    IF i > Len(t) THEN 0
    ELSE IF t[i] = "\"" THEN i
    ELSE IF t[i] \in {"\n", "\t", "\r", "\\"} THEN 0
    ELSE CloseQuote(t, i + 1)

\* First position >= i of t that holds no digit.
RECURSIVE DigitsEnd(_, _)
DigitsEnd(t, i) ==
    IF i <= Len(t) /\ t[i] \in Digits THEN DigitsEnd(t, i + 1) ELSE i

StartsWith(t, i, w) ==
    /\ i + Len(w) - 1 <= Len(t)
    /\ SubSeq(t, i, i + Len(w) - 1) = w

ParseFail == [ok |-> FALSE, v |-> JUndefined, next |-> 0]
ParseOk(val, n) == [ok |-> TRUE, v |-> val, next |-> n]

\* JSON value starting at position i of text t (strings without escapes,
\* unsigned integers, literals, arrays, the empty object).
RECURSIVE ParseValue(_, _)
RECURSIVE ParseElements(_, _, _)
ParseValue(t, i) ==
    LET j == SkipWs(t, i) IN
    IF j > Len(t) THEN ParseFail
    ELSE IF t[j] = "\"" THEN
        LET c == CloseQuote(t, j + 1) IN
        IF c = 0 THEN ParseFail
        ELSE ParseOk(JString(SubSeq(t, j + 1, c - 1)), c + 1)
    ELSE IF t[j] = "[" THEN
        LET e == SkipWs(t, j + 1) IN
        IF e <= Len(t) /\ t[e] = "]" THEN ParseOk(JArray(<<>>), e + 1)
        ELSE ParseElements(t, j + 1, <<>>)
    ELSE IF t[j] = "{" THEN
        LET e == SkipWs(t, j + 1) IN
        IF e <= Len(t) /\ t[e] = "}" THEN ParseOk(JObject, e + 1)
        ELSE ParseFail
    ELSE IF StartsWith(t, j, S_null) THEN ParseOk(JNull, j + 4)
    ELSE IF StartsWith(t, j, S_true) THEN ParseOk(JBoolean(S_true), j + 4)
    ELSE IF StartsWith(t, j, S_false) THEN ParseOk(JBoolean(S_false), j + 5)
    ELSE IF t[j] \in Digits THEN
        LET d == IF t[j] = "0" THEN j + 1 ELSE DigitsEnd(t, j) IN
        ParseOk(JNumber(SubSeq(t, j, d - 1)), d)
    ELSE ParseFail

\* The elements of an array after its "[" or after a ",", up to its "]".
ParseElements(t, i, acc) ==
    LET r == ParseValue(t, i) IN
    IF ~r.ok THEN ParseFail
    ELSE
        LET e == SkipWs(t, r.next) IN
        IF e > Len(t) THEN ParseFail
        ELSE IF t[e] = "]" THEN ParseOk(JArray(Append(acc, r.v)), e + 1)
        ELSE IF t[e] = "," THEN ParseElements(t, e + 1, Append(acc, r.v))
        ELSE ParseFail

\* JSON.parse(text): the value, or not ok (a SyntaxError is thrown).
JSONParse(t) ==
    LET r == ParseValue(t, 1) IN
    IF r.ok /\ SkipWs(t, r.next) > Len(t) THEN r ELSE ParseFail

\* obj[i] for a zero-based index i; reading a property of null throws.
IndexThrows(obj) == obj.k \in {"null", "undefined"}
Index(obj, i) ==
    IF obj.k = "array" THEN
        IF i < Len(obj.a) THEN obj.a[i + 1] ELSE JUndefined
    ELSE IF obj.k = "string" THEN
        IF i < Len(obj.s) THEN JString(<<obj.s[i + 1]>>) ELSE JUndefined
    ELSE JUndefined

\* Faulty variant: the comparison ignores the case of the first letter.
NotStoppedAnyCase(v) == ~(v.k = "string" /\ v.s \in {S_Stopped, S_stopped})
\* 'Stopped' !== v
NotStopped(v) == ~(v.k = "string" /\ v.s = S_Stopped)

----------------------------------------------------------------------------
\* Inputs from outside the adapter.

Alert == "Alert"
Silent == "Silent"
CheckPresentMode == {Alert, Silent}

\* An optional string argument: absent (undefined) or a string.
Absent == [given |-> FALSE, s |-> <<>>]
Given(t) == [given |-> TRUE, s |-> t]

MinikubeOptions(d, f) == [vmDriver |-> d, additionalFlags |-> f]
NoOptions == MinikubeOptions(Absent, Absent)

\* What shell.exec settles with: a ShellResult, or a rejection.
ShellResult(c, out, err) ==
    [rejected |-> FALSE, code |-> c, stdout |-> out, stderr |-> err, reason |-> <<>>]
ShellRejected ==
    [rejected |-> TRUE, code |-> 0, stdout |-> <<>>, stderr |-> <<>>, reason |-> S_spawn]

ExitCodes == {0, 1}
Stderrs == {S_empty, S_exitStatus}

\* Inputs of the runs in which calls overlap.
Few ==
    [options |-> {MinikubeOptions(Given(S_hyperkit), Given(S_foo))},
     status |-> {ShellResult(0, MinikubeFormat(S_Running, S_Running, S_Configured), S_empty),
                 ShellResult(0, MinikubeFormat(S_Stopped, S_empty, S_empty), S_empty),
                 ShellResult(1, S_empty, S_exitStatus),
                 ShellRejected},
     command |-> {ShellResult(0, S_empty, S_empty),
                  ShellResult(1, S_empty, S_exitStatus),
                  ShellRejected},
     help |-> {ShellResult(0, S_minikube, S_empty),
               ShellResult(1, S_empty, S_exitStatus),
               ShellRejected}]

\* Inputs of the runs with one call at a time.
StatusStrings == {S_Stopped, S_stopped, S_Running, S_Configured, S_empty}
ManyOptions ==
    {MinikubeOptions(d, f) :
        d \in {Absent, Given(S_empty), Given(S_hyperkit)},
        f \in {Absent, Given(S_empty), Given(S_foo), Given(S_driverInFlags)}}
WellFormedStdouts ==
    {MinikubeFormat(s0, s[1], s[2]) :
        s0 \in StatusStrings,
        s \in {<<S_Running, S_Configured>>, <<S_Stopped, S_Stopped>>, <<S_empty, S_stopped>>}}
OtherStdouts ==
    {S_empty,
     S_minikube,
     S_null,
     S_true,
     <<"7">>,
     <<"{", "}">>,
     <<"[", "]">>,
     Quoted(S_Stopped),
     <<"[">> \o Quoted(S_Running),
     <<"[">> \o Quoted(S_Running) \o <<"]">>,
     <<"[">> \o Quoted(S_Stopped) \o <<"]", "\n">>,
     <<"[">> \o Quoted(S_Stopped) \o <<",">> \o Quoted(S_Stopped) \o <<"]">>,
     <<"[", "1", ",", "2", ",", "3", "]">>,
     <<"[">> \o Quoted(S_Running) \o <<",", "n", "u", "l", "l", ",", "[", "]", "]">>,
     MinikubeFormat(S_Running, S_Running, S_Configured) \o <<"\n">>,
     MinikubeFormat(S_Running, S_Running, S_Configured) \o S_minikube,
     <<"[">> \o Quoted(S_Stopped) \o <<",">> \o Quoted(S_Stopped) \o <<",">>
         \o Quoted(S_empty) \o <<",">> \o Quoted(S_Running) \o <<"]">>}
Many ==
    [options |-> ManyOptions,
     status |-> {ShellResult(c, o, e) : c \in ExitCodes,
                                        o \in WellFormedStdouts \cup OtherStdouts,
                                        e \in Stderrs} \cup {ShellRejected},
     command |-> {ShellResult(c, S_empty, e) : c \in ExitCodes, e \in Stderrs}
                 \cup {ShellRejected},
     help |-> {ShellResult(c, o, e) : c \in ExitCodes, o \in {S_empty, S_minikube},
                                      e \in Stderrs} \cup {ShellRejected}]

----------------------------------------------------------------------------
\* State.

VARIABLES
    context,               \* binFound and binPath of the adapter's Context
    minikubeStatusBarItem, \* the module-wide status bar item
    call                   \* per call slot: the call in progress or last made

vars == <<context, minikubeStatusBarItem, call>>

\* Events a call causes, in order.
Event(name, lit, arg) == [e |-> name, m |-> lit, x |-> arg]

NoInfo == [running |-> FALSE, cluster |-> JUndefined, kubectl |-> JUndefined]
NoError == [name |-> "", m |-> "", x |-> <<>>]
NoStatus == [state |-> "none", info |-> NoInfo, error |-> NoError]
Returned(i) == [state |-> "returned", info |-> i, error |-> NoError]
Thrown(n, lit, arg) ==
    [state |-> "thrown", info |-> NoInfo, error |-> [name |-> n, m |-> lit, x |-> arg]]

NoDiag == [state |-> "none", succeeded |-> FALSE, error |-> ""]
NoShell == [kind |-> "none", cmd |-> <<>>]
NoneSettled == [kind |-> "none", result |-> ShellResult(0, <<>>, <<>>)]
Settled(kind, sr) == [kind |-> kind, result |-> sr]

IdleCall ==
    [op |-> "none", stack |-> <<>>, mode |-> Silent, options |-> NoOptions,
     present |-> FALSE, status |-> NoStatus, diag |-> NoDiag, task |-> "none",
     shell |-> NoShell, settled |-> NoneSettled, overlapped |-> FALSE, log |-> <<>>]

Init ==
    /\ context = [binFound |-> FALSE, binPath |-> S_minikube]
    /\ minikubeStatusBarItem = [created |-> FALSE, text |-> "", shown |-> FALSE]
    /\ call = [p \in Calls |-> IdleCall]

Top(p) == IF call[p].stack = <<>> THEN "" ELSE Head(call[p].stack)

\* The status bar item after an event.
ApplyEvent(item, ev) ==
    IF ev.e = "createStatusBarItem" THEN [created |-> TRUE, text |-> "", shown |-> FALSE]
    ELSE IF ev.e = "item.text" THEN [item EXCEPT !.text = ev.m]
    ELSE IF ev.e = "item.show" THEN [item EXCEPT !.shown = TRUE]
    ELSE IF ev.e = "item.hide" THEN [item EXCEPT !.shown = FALSE]
    ELSE item

RECURSIVE ApplyEvents(_, _)
ApplyEvents(item, evs) ==
    IF evs = <<>> THEN item ELSE ApplyEvents(ApplyEvent(item, Head(evs)), Tail(evs))

Active(p) == call[p].stack # <<>>

\* A step of call p: its slot becomes c after causing the events evs. The
\* step is recorded in the log of p, and every call in progress beside
\* another one is marked as overlapped.
Step(p, c, evs) ==
    /\ call' = [q \in Calls |->
                  IF q = p
                  THEN [c EXCEPT !.log = c.log \o evs,
                                 !.overlapped = c.overlapped \/ \E r \in Calls \ {p} : Active(r)]
                  ELSE [call[q] EXCEPT !.overlapped = @ \/ Active(q)]]
    /\ minikubeStatusBarItem' = ApplyEvents(minikubeStatusBarItem, evs)

----------------------------------------------------------------------------
\* checkPresent and the binary locator.

\* checkPresent(context, mode) called by a function that awaits it at the
\* first label of rest: resolved with true when binFound is set, and
\* otherwise waiting for checkForMinikubeInternal.
\* Faulty variant: binFound is not consulted.
CallCheckPresentUncached(c, m, rest) ==
    [c |-> [c EXCEPT !.stack = <<"checkPresent:180">> \o rest, !.mode = m],
     evs |-> <<Event("checkForBinary", m, <<>>)>>]
CallCheckPresent(c, m, rest) ==
    IF context.binFound
    THEN [c |-> [c EXCEPT !.present = TRUE, !.stack = rest], evs |-> <<>>]
    ELSE [c |-> [c EXCEPT !.stack = <<"checkPresent:180">> \o rest, !.mode = m],
          evs |-> <<Event("checkForBinary", m, <<>>)>>]

\* A call of one of the five operations of MinikubeImpl on a free slot; each
\* starts with checkPresent.
Begin(p, o, opts, m, label) ==
    /\ call[p].stack = <<>>
    /\ LET fresh == [IdleCall EXCEPT !.op = o, !.task = "pending", !.options = opts]
           r == CallCheckPresent(fresh, m, <<label>>)
       IN Step(p, r.c, r.evs)
    /\ UNCHANGED context

CheckPresent(p) == \E m \in CheckPresentMode : Begin(p, "checkPresent", NoOptions, m, "checkPresent:59")
IsRunnable(p) == Begin(p, "isRunnable", NoOptions, Alert, "isRunnable:80")
Start(p, In) == \E opts \in In.options : Begin(p, "start", opts, Alert, "start:98")
Stop(p) == Begin(p, "stop", NoOptions, Alert, "stop:130")
\* Faulty variant: status checks presence in Alert mode.
StatusAlerting(p) ==
    /\ call[p].stack = <<>>
    /\ LET fresh == [IdleCall EXCEPT !.op = "status", !.task = "pending"]
           r == CallCheckPresent(fresh, Alert, <<"status:158", "status:75">>)
       IN Step(p, r.c, r.evs)
    /\ UNCHANGED context
Status(p) ==
    /\ call[p].stack = <<>>
    /\ LET fresh == [IdleCall EXCEPT !.op = "status", !.task = "pending"]
           r == CallCheckPresent(fresh, Silent, <<"status:158", "status:75">>)
       IN Step(p, r.c, r.evs)
    /\ UNCHANGED context

\* binutil.checkForBinary settles: the binary is missing, or found on the
\* path, or found at the configured path. Finding it sets binFound (and
\* binPath for a configured path); missing it alerts in Alert mode only.
LocatorOutcomes == {"missing", "inferred", "configured"}
CheckForBinaryReturns(p) ==
    /\ Top(p) = "checkPresent:180"
    /\ \E r \in LocatorOutcomes :
        LET found == r # "missing"
            c == [call[p] EXCEPT !.present = found, !.stack = Tail(@), !.mode = Silent]
            evs == IF ~found /\ call[p].mode = Alert
                   THEN <<Event("alertNoBin", "", <<>>)>> ELSE <<>>
        IN  /\ Step(p, c, evs)
            /\ context' = IF found
                          THEN [binFound |-> TRUE,
                                binPath |-> IF r = "configured" THEN S_customPath
                                            ELSE context.binPath]
                          ELSE context

\* The promise of the public checkPresent resolves with the result.
CheckPresentDone(p) ==
    /\ Top(p) = "checkPresent:59"
    /\ Step(p, [call[p] EXCEPT !.stack = <<>>, !.task = "resolved"], <<>>)
    /\ UNCHANGED context

\* shell.exec of a command by call p.
Exec(c, kind, cmd) == [c EXCEPT !.shell = [kind |-> kind, cmd |-> cmd]]
ExecEvent(kind) == Event("exec", kind, <<>>)

----------------------------------------------------------------------------
\* isRunnable.

\* wizard.fromShellExitCodeOnly
FromShellExitCodeOnly(sr) ==
    [state |-> "returned", succeeded |-> sr.code = 0,
     error |-> IF sr.code = 0 THEN "" ELSE "exit code"]

IsRunnableAfterCheckPresent(p) ==
    /\ Top(p) = "isRunnable:80"
    /\ IF ~call[p].present
       THEN Step(p, [call[p] EXCEPT !.stack = <<>>, !.task = "resolved",
                        !.diag = [state |-> "returned", succeeded |-> FALSE,
                                  error |-> "Minikube is not installed"]], <<>>)
       ELSE Step(p, Exec([call[p] EXCEPT !.stack = <<"isRunnable:84">>],
                         "help", context.binPath \o S_help),
                 <<ExecEvent("help")>>)
    /\ UNCHANGED context

\* Faulty variant: output on stderr counts as a failure.
IsRunnableAfterExecReadingStderr(p, In) ==
    /\ Top(p) = "isRunnable:84"
    /\ \E sr \in In.help :
        Step(p, [call[p] EXCEPT !.stack = <<>>, !.shell = NoShell,
                    !.settled = Settled("help", sr),
                    !.task = IF sr.rejected THEN "rejected" ELSE "resolved",
                    !.diag = IF sr.rejected THEN NoDiag
                             ELSE [FromShellExitCodeOnly(sr) EXCEPT
                                     !.succeeded = @ /\ sr.stderr = <<>>]],
             <<>>)
    /\ UNCHANGED context
IsRunnableAfterExec(p, In) ==
    /\ Top(p) = "isRunnable:84"
    /\ \E sr \in In.help :
        Step(p, [call[p] EXCEPT !.stack = <<>>, !.shell = NoShell,
                    !.settled = Settled("help", sr),
                    !.task = IF sr.rejected THEN "rejected" ELSE "resolved",
                    !.diag = IF sr.rejected THEN NoDiag ELSE FromShellExitCodeOnly(sr)],
             <<>>)
    /\ UNCHANGED context

----------------------------------------------------------------------------
\* status.

\* Faulty variant: success is decided by the exit code, not by stderr.
StatusOfByExitCode(sr) ==
    IF sr.rejected THEN Thrown("rejected", "", sr.reason)
    ELSE IF sr.code = 0 THEN
        LET r == JSONParse(sr.stdout) IN
        IF ~r.ok THEN Thrown("SyntaxError", "", <<>>)
        ELSE IF IndexThrows(r.v) THEN Thrown("TypeError", "", <<>>)
        ELSE Returned([running |-> NotStopped(Index(r.v, 0)),
                       cluster |-> Index(r.v, 1),
                       kubectl |-> Index(r.v, 2)])
    ELSE Thrown("Error", "failed to get status: ", sr.stderr)
\* What minikubeStatus does with the settled status command.
StatusOf(sr) ==
    IF sr.rejected THEN Thrown("rejected", "", sr.reason)
    ELSE IF Len(sr.stderr) = 0 THEN
        LET r == JSONParse(sr.stdout) IN
        IF ~r.ok THEN Thrown("SyntaxError", "", <<>>)
        ELSE IF IndexThrows(r.v) THEN Thrown("TypeError", "", <<>>)
        ELSE Returned([running |-> NotStopped(Index(r.v, 0)),
                       cluster |-> Index(r.v, 1),
                       kubectl |-> Index(r.v, 2)])
    ELSE Thrown("Error", "failed to get status: ", sr.stderr)

StatusCommand(binPath) == binPath \o S_statusArgs

MinikubeStatusAfterCheckPresent(p) ==
    /\ Top(p) = "status:158"
    /\ IF ~call[p].present
       THEN Step(p, [call[p] EXCEPT !.stack = Tail(@),
                        !.status = Thrown("Error", "minikube executable could not be found!", <<>>)],
                 <<>>)
       ELSE Step(p, Exec([call[p] EXCEPT !.stack = <<"status:162">> \o Tail(@)],
                         "status", StatusCommand(context.binPath)),
                 <<ExecEvent("status")>>)
    /\ UNCHANGED context

MinikubeStatusAfterExec(p, In) ==
    /\ Top(p) = "status:162"
    /\ \E sr \in In.status :
        Step(p, [call[p] EXCEPT !.stack = Tail(@), !.shell = NoShell,
                    !.settled = Settled("status", sr),
                    !.status = StatusOf(sr)], <<>>)
    /\ UNCHANGED context

\* The promise of the public status settles as minikubeStatus did.
StatusDone(p) ==
    /\ Top(p) = "status:75"
    /\ Step(p, [call[p] EXCEPT !.stack = <<>>,
                   !.task = IF call[p].status.state = "thrown" THEN "rejected"
                            ELSE "resolved"], <<>>)
    /\ UNCHANGED context

----------------------------------------------------------------------------
\* The status bar item, start and stop.

\* getStatusBar(): creates the item on first use.
GetStatusBar ==
    IF minikubeStatusBarItem.created THEN <<>>
    ELSE <<Event("createStatusBarItem", "", <<>>)>>

\* Presence checked: without the binary the call returns; with it the item
\* shows the text and minikubeStatus is called.
\* Faulty variant: the text of the item is set and the item is not shown.
AfterCheckPresentNotShown(p, text, label) ==
    /\ IF ~call[p].present
       THEN Step(p, [call[p] EXCEPT !.stack = <<>>, !.task = "resolved"], <<>>)
       ELSE LET r == CallCheckPresent(call[p], Silent, <<"status:158", label>>)
            IN Step(p, r.c, GetStatusBar \o <<Event("item.text", text, <<>>)>> \o r.evs)
    /\ UNCHANGED context
\* Faulty variant: the item is set and shown before presence is tested.
AfterCheckPresentItemFirst(p, text, label) ==
    /\ LET evs == GetStatusBar \o <<Event("item.text", text, <<>>),
                                      Event("item.show", "", <<>>)>>
       IN IF ~call[p].present
          THEN Step(p, [call[p] EXCEPT !.stack = <<>>, !.task = "resolved"], evs)
          ELSE LET r == CallCheckPresent(call[p], Silent, <<"status:158", label>>)
               IN Step(p, r.c, evs \o r.evs)
    /\ UNCHANGED context
AfterCheckPresent(p, text, label) ==
    /\ IF ~call[p].present
       THEN Step(p, [call[p] EXCEPT !.stack = <<>>, !.task = "resolved"], <<>>)
       ELSE LET r == CallCheckPresent(call[p], Silent, <<"status:158", label>>)
            IN Step(p, r.c,
                    GetStatusBar \o <<Event("item.text", text, <<>>),
                                      Event("item.show", "", <<>>)>> \o r.evs)
    /\ UNCHANGED context

Truthy(opt) == opt.given /\ Len(opt.s) > 0

\* Faulty variant: the driver flag is added for an empty driver too.
StartFlagsAnyDriver(options) ==
    LET flags == IF Truthy(options.additionalFlags) THEN options.additionalFlags.s
                 ELSE <<>>
    IN IF options.vmDriver.given
       THEN flags \o S_vmDriverFlag \o options.vmDriver.s \o S_space
       ELSE flags
\* The command line startMinikube builds.
StartFlags(options) ==
    LET flags == IF Truthy(options.additionalFlags) THEN options.additionalFlags.s
                 ELSE <<>>
    IN IF Truthy(options.vmDriver)
       THEN flags \o S_vmDriverFlag \o options.vmDriver.s \o S_space
       ELSE flags
StartCommand(binPath, options) ==
    binPath \o S_space \o StartFlags(options) \o S_start

StopCommand(binPath) == binPath \o S_stop

StartAfterCheckPresent(p) ==
    /\ Top(p) = "start:98"
    /\ AfterCheckPresent(p, "minikube-starting", "start:105")

\* The precheck of startMinikube and what it shows.
\* Faulty variant: the start command is issued whatever the status is.
AlreadyStartedIgnored(status) == FALSE
AlreadyStarted(status) == status.info.running
\* Faulty variant: the precheck reports with an error message.
AlreadyStartedAsError ==
    <<Event("showErrorMessage", "Minikube cluster is already started.", <<>>)>>
AlreadyStartedEvents ==
    <<Event("showWarningMessage", "Minikube cluster is already started.", <<>>)>>

\* Faulty variant: no start command is issued while the start command of
\* another call is in flight.
StartAfterStatusSerialized(p) ==
    /\ Top(p) = "start:105"
    /\ IF call[p].status.state = "thrown"
       THEN Step(p, [call[p] EXCEPT !.stack = <<>>, !.task = "rejected"], <<>>)
       ELSE IF \/ AlreadyStarted(call[p].status)
               \/ \E q \in Calls \ {p} : call[q].shell.kind = "start"
       THEN Step(p, [call[p] EXCEPT !.stack = <<>>, !.task = "resolved"],
                 AlreadyStartedEvents)
       ELSE Step(p, Exec([call[p] EXCEPT !.stack = <<"start:115">>, !.task = "resolved"],
                         "start", StartCommand(context.binPath, call[p].options)),
                 <<ExecEvent("start")>>)
    /\ UNCHANGED context
\* Faulty variant: the promise of start waits for the command to complete.
StartAfterStatusAwaitingCommand(p) ==
    /\ Top(p) = "start:105"
    /\ IF call[p].status.state = "thrown"
       THEN Step(p, [call[p] EXCEPT !.stack = <<>>, !.task = "rejected"], <<>>)
       ELSE IF AlreadyStarted(call[p].status)
       THEN Step(p, [call[p] EXCEPT !.stack = <<>>, !.task = "resolved"],
                 AlreadyStartedEvents)
       ELSE Step(p, Exec([call[p] EXCEPT !.stack = <<"start:115">>],
                         "start", StartCommand(context.binPath, call[p].options)),
                 <<ExecEvent("start")>>)
    /\ UNCHANGED context
StartAfterStatus(p) ==
    /\ Top(p) = "start:105"
    /\ IF call[p].status.state = "thrown"
       THEN Step(p, [call[p] EXCEPT !.stack = <<>>, !.task = "rejected"], <<>>)
       ELSE IF AlreadyStarted(call[p].status)
       THEN Step(p, [call[p] EXCEPT !.stack = <<>>, !.task = "resolved"],
                 AlreadyStartedEvents)
       ELSE Step(p, Exec([call[p] EXCEPT !.stack = <<"start:115">>, !.task = "resolved"],
                         "start", StartCommand(context.binPath, call[p].options)),
                 <<ExecEvent("start")>>)
    /\ UNCHANGED context

\* Faulty variant: a non-zero exit code leaves the indicator shown.
StartHandlersKeepShown(sr) ==
    IF sr.rejected
    THEN <<Event("item.hide", "", <<>>),
           Event("showErrorMessage", "Failed to start cluster: ", sr.reason)>>
    ELSE IF sr.code = 0
    THEN <<Event("showInformationMessage", "Cluster started.", <<>>),
           Event("item.text", "minikube-running", <<>>)>>
    ELSE <<Event("showErrorMessage", "Failed to start cluster ", sr.stderr)>>
\* The events of the handlers attached to the start command.
StartHandlers(sr) ==
    IF sr.rejected
    THEN <<Event("item.hide", "", <<>>),
           Event("showErrorMessage", "Failed to start cluster: ", sr.reason)>>
    ELSE IF sr.code = 0
    THEN <<Event("showInformationMessage", "Cluster started.", <<>>),
           Event("item.text", "minikube-running", <<>>)>>
    ELSE <<Event("showErrorMessage", "Failed to start cluster ", sr.stderr),
           Event("item.hide", "", <<>>)>>

\* Faulty variant: while the start command is in flight the adapter may
\* time out and hide the item.
StartCompletedOrTimedOut(p, In) ==
    /\ Top(p) = "start:115"
    /\ \/ \E sr \in In.command :
            Step(p, [call[p] EXCEPT !.stack = <<>>, !.shell = NoShell,
                                    !.settled = Settled("start", sr)],
                 StartHandlers(sr))
       \/ /\ minikubeStatusBarItem.shown
          /\ Step(p, call[p], <<Event("item.hide", "", <<>>)>>)
    /\ UNCHANGED context
StartCompleted(p, In) ==
    /\ Top(p) = "start:115"
    /\ \E sr \in In.command :
        Step(p, [call[p] EXCEPT !.stack = <<>>, !.shell = NoShell,
                                !.settled = Settled("start", sr)],
             StartHandlers(sr))
    /\ UNCHANGED context

StopAfterCheckPresent(p) ==
    /\ Top(p) = "stop:130"
    /\ AfterCheckPresent(p, "minikube-stopping", "stop:137")

\* The precheck of stopMinikube and what it shows.
\* Faulty variant: the precheck is inverted.
AlreadyStoppedInverted(status) == status.info.running
AlreadyStopped(status) == ~status.info.running
AlreadyStoppedEvents ==
    <<Event("showWarningMessage", "Minikube cluster is already stopped.", <<>>)>>

StopAfterStatus(p) ==
    /\ Top(p) = "stop:137"
    /\ IF call[p].status.state = "thrown"
       THEN Step(p, [call[p] EXCEPT !.stack = <<>>, !.task = "rejected"], <<>>)
       ELSE IF AlreadyStopped(call[p].status)
       THEN Step(p, [call[p] EXCEPT !.stack = <<>>, !.task = "resolved"],
                 AlreadyStoppedEvents)
       ELSE Step(p, Exec([call[p] EXCEPT !.stack = <<"stop:143">>, !.task = "resolved"],
                         "stop", StopCommand(context.binPath)),
                 <<ExecEvent("stop")>>)
    /\ UNCHANGED context

\* Faulty variant: a rejected execution leaves the indicator shown.
StopHandlersKeepShown(sr) ==
    IF sr.rejected
    THEN <<Event("showErrorMessage", "Error stopping cluster: ", sr.reason)>>
    ELSE IF sr.code = 0
    THEN <<Event("showInformationMessage", "Cluster stopped.", <<>>),
           Event("item.hide", "", <<>>)>>
    ELSE <<Event("showErrorMessage", "Error stopping cluster ", sr.stderr),
           Event("item.hide", "", <<>>)>>
\* The events of the handlers attached to the stop command.
StopHandlers(sr) ==
    IF sr.rejected
    THEN <<Event("showErrorMessage", "Error stopping cluster: ", sr.reason),
           Event("item.hide", "", <<>>)>>
    ELSE IF sr.code = 0
    THEN <<Event("showInformationMessage", "Cluster stopped.", <<>>),
           Event("item.hide", "", <<>>)>>
    ELSE <<Event("showErrorMessage", "Error stopping cluster ", sr.stderr),
           Event("item.hide", "", <<>>)>>

StopCompleted(p, In) ==
    /\ Top(p) = "stop:143"
    /\ \E sr \in In.command :
        Step(p, [call[p] EXCEPT !.stack = <<>>, !.shell = NoShell,
                                !.settled = Settled("stop", sr)],
             StopHandlers(sr))
    /\ UNCHANGED context

----------------------------------------------------------------------------
\* Specifications.

NextOf(p, In) ==
    \/ CheckPresent(p)
    \/ IsRunnable(p)
    \/ Start(p, In)
    \/ Stop(p)
    \/ Status(p)
    \/ CheckForBinaryReturns(p)
    \/ CheckPresentDone(p)
    \/ IsRunnableAfterCheckPresent(p)
    \/ IsRunnableAfterExec(p, In)
    \/ MinikubeStatusAfterCheckPresent(p)
    \/ MinikubeStatusAfterExec(p, In)
    \/ StatusDone(p)
    \/ StartAfterCheckPresent(p)
    \/ StartAfterStatus(p)
    \/ StartCompleted(p, In)
    \/ StopAfterCheckPresent(p)
    \/ StopAfterStatus(p)
    \/ StopCompleted(p, In)

\* Calls that overlap, on few inputs.
Next == \E p \in Calls : NextOf(p, Few)
Spec == Init /\ [][Next]_vars

\* One call at a time, on many inputs.
NextAlone == NextOf(1, Many)
SpecAlone == Init /\ [][NextAlone]_vars

\* One call at a time, where every command that was launched completes:
\* the handlers attached to a start or stop command run at last.
SpecAloneCompleting ==
    /\ Init /\ [][NextAlone]_vars
    /\ WF_vars(StartCompleted(1, Many))
    /\ WF_vars(StopCompleted(1, Many))

----------------------------------------------------------------------------
\* Vocabulary of the properties.

\* The call of slot p has been made and is over, its command included.
Done(p) == call[p].op # "none" /\ ~Active(p)

MessageNames == {"showWarningMessage", "showErrorMessage", "showInformationMessage"}
ItemNames == {"item.text", "item.show", "item.hide"}

IsMessage(ev) == ev.e \in MessageNames
IsItemEvent(ev) == ev.e \in ItemNames
Messages(log) == SelectSeq(log, IsMessage)
ItemEvents(log) == SelectSeq(log, IsItemEvent)
Execs(log, kind) == SelectSeq(log, LAMBDA ev : ev.e = "exec" /\ ev.m = kind)
LocatorCalls(log) == SelectSeq(log, LAMBDA ev : ev.e = "checkForBinary")

\* The events the step from the current state adds to the log of p.
NewEvents(p) == SubSeq(call[p].log', Len(call[p].log) + 1, Len(call[p].log'))

ItemShows(text) == [created |-> TRUE, text |-> text, shown |-> TRUE]
SetAndShow(text) == <<Event("item.text", text, <<>>), Event("item.show", "", <<>>)>>

\* minikubeStatus has returned a ClusterStatus to the call of slot p.
StatusReturned(p) == call[p].status.state = "returned"

----------------------------------------------------------------------------
\* C1: a start call that finds the binary and whose status query reports
\* running = true issues no start command, shows exactly one message, a
\* warning, and leaves the indicator as its first step set it: text
\* 'minikube-starting', shown, with no further change by the call.
StartFoundRunning(p) ==
    /\ call[p].op = "start"
    /\ call[p].present
    /\ StatusReturned(p)
    /\ call[p].status.info.running

C1_StartWhenRunningOnlyWarns ==
    \A p \in Calls : StartFoundRunning(p) =>
        /\ Execs(call[p].log, "start") = <<>>
        /\ call[p].shell.kind # "start"
        /\ Top(p) \in {"start:105", ""}
        /\ ItemEvents(call[p].log) = SetAndShow("minikube-starting")
        /\ minikubeStatusBarItem = ItemShows("minikube-starting")
        /\ Done(p) =>
            /\ Len(Messages(call[p].log)) = 1
            /\ Messages(call[p].log)[1].e = "showWarningMessage"
            /\ call[p].task = "resolved"

C1_Witness ==
    \E p \in Calls : StartFoundRunning(p) /\ Done(p)

\* C2: a stop call that finds the binary and whose status query reports
\* running = false issues no stop command and shows a warning.
StopFoundStopped(p) ==
    /\ call[p].op = "stop"
    /\ call[p].present
    /\ StatusReturned(p)
    /\ ~call[p].status.info.running

C2_StopWhenStoppedOnlyWarns ==
    \A p \in Calls : StopFoundStopped(p) =>
        /\ Execs(call[p].log, "stop") = <<>>
        /\ call[p].shell.kind # "stop"
        /\ Top(p) \in {"stop:137", ""}
        /\ Done(p) =>
            /\ Len(Messages(call[p].log)) = 1
            /\ Messages(call[p].log)[1].e = "showWarningMessage"

C2_Witness ==
    \E p \in Calls : StopFoundStopped(p) /\ Done(p)

\* C3: once a checkPresent has returned true, binFound is set and stays
\* set, and from then on every checkPresent that is called (by the public
\* checkPresent in either mode, by isRunnable, start, stop or status, or by
\* the minikubeStatus inside start and stop) returns true without a call
\* of the binary locator.
CallsCheckPresent(p) ==
    \/ ~Active(p) /\ Active(p)'
    \/ Top(p) \in {"start:98", "stop:130"} /\ Active(p)' /\ Top(p)' # Top(p)

C3_PresenceIsCached ==
    [][/\ \A p \in Calls : call[p].present => context.binFound
       /\ context.binFound =>
            /\ context.binFound'
            /\ \A p \in Calls :
                /\ Top(p)' = "checkPresent:180" => Top(p) = "checkPresent:180"
                /\ Len(LocatorCalls(call[p].log')) <= Len(LocatorCalls(call[p].log))
                /\ CallsCheckPresent(p) =>
                    /\ call[p].present'
                    /\ Top(p)' \in {"checkPresent:59", "isRunnable:80", "start:98",
                                    "stop:130", "status:158"}]_vars

C3_Witness ==
    \E p \in Calls :
        /\ Done(p) /\ call[p].op = "stop" /\ call[p].present
        /\ LocatorCalls(call[p].log) = <<>>
        /\ Execs(call[p].log, "status") # <<>>

\* The status command of the call of slot p has settled with a ShellResult
\* and no other command of the call has settled since.
StatusSettled(p) ==
    /\ call[p].settled.kind = "status"
    /\ ~call[p].settled.result.rejected

\* The texts that are a JSON array of the three strings s0, s1, s2.
ThreeStrings(s0, s1, s2) ==
    {MinikubeFormat(s0, s1, s2), MinikubeFormat(s0, s1, s2) \o <<"\n">>}
IsThreeStrings(text) ==
    \E s0 \in StatusStrings, s1 \in StatusStrings, s2 \in StatusStrings :
        text \in ThreeStrings(s0, s1, s2)

\* C4: with empty stderr and a stdout that is a JSON array of three strings
\* [s0, s1, s2], status yields cluster = s1, kubectl = s2 and running = true
\* exactly when s0 is not "Stopped".
C4_StatusMapsTheThreeStrings ==
    \A p \in Calls :
        StatusSettled(p) /\ call[p].settled.result.stderr = <<>> =>
            \A s0 \in StatusStrings, s1 \in StatusStrings, s2 \in StatusStrings :
                call[p].settled.result.stdout \in ThreeStrings(s0, s1, s2) =>
                    /\ call[p].status =
                         Returned([running |-> s0 # S_Stopped,
                                   cluster |-> JString(s1),
                                   kubectl |-> JString(s2)])
                    /\ call[p].op = "status" /\ Done(p) => call[p].task = "resolved"

C4_Witness ==
    \E p \in Calls :
        /\ StatusSettled(p) /\ Done(p) /\ call[p].op = "status"
        /\ call[p].settled.result.stderr = <<>>
        /\ call[p].settled.result.stdout = MinikubeFormat(S_stopped, S_Running, S_Configured)
        /\ call[p].status.info.running

\* C5: with non-empty stderr, status throws an error carrying the stderr
\* text, whatever stdout and the exit code are; no ClusterStatus is returned.
C5_StderrFailsStatus ==
    \A p \in Calls :
        StatusSettled(p) /\ call[p].settled.result.stderr # <<>> =>
            /\ call[p].status =
                 Thrown("Error", "failed to get status: ", call[p].settled.result.stderr)
            /\ call[p].op = "status" /\ Done(p) => call[p].task = "rejected"

C5_Witness ==
    \E p \in Calls :
        /\ StatusSettled(p) /\ Done(p) /\ call[p].op = "status"
        /\ call[p].settled.result.stderr = S_exitStatus
        /\ call[p].settled.result.code = 0
        /\ call[p].settled.result.stdout = MinikubeFormat(S_Running, S_Running, S_Configured)
        /\ call[p].task = "rejected"

\* C6: the promise returned by start is never rejected.
C6_StartNeverRejects ==
    \A p \in Calls : call[p].op = "start" => call[p].task # "rejected"

\* C7: with empty stderr and a stdout that is not a JSON array of three
\* strings, status throws and returns no ClusterStatus.
C7_MalformedStatusThrows ==
    \A p \in Calls :
        /\ StatusSettled(p)
        /\ call[p].settled.result.stderr = <<>>
        /\ ~IsThreeStrings(call[p].settled.result.stdout)
        => /\ call[p].status.state = "thrown"
           /\ call[p].op = "status" /\ Done(p) => call[p].task = "rejected"

\* Text w occurs in text t.
Contains(t, w) == \E i \in 1..Len(t) : StartsWith(t, i, w)

\* The command of the start call of slot p, after the binary path and a space.
StartArguments(p) ==
    SubSeq(call[p].shell.cmd, Len(context.binPath) + 2, Len(call[p].shell.cmd))

\* C8 as amended: the command is the binary path, a space, additionalFlags
\* (empty when absent), then " --vm-driver=<driver> " exactly when vmDriver
\* is a non-empty string, then " start". With no driver the adapter adds no
\* "--vm-driver=": it occurs in the command only if additionalFlags holds it.
\* {vmDriver: "", additionalFlags: "--foo"} gives "--foo start" and
\* {vmDriver: "hyperkit", additionalFlags: ""} gives
\* " --vm-driver=hyperkit  start".
C8_StartCommandLine ==
    \A p \in Calls : call[p].shell.kind = "start" =>
        LET o == call[p].options
            flags == IF o.additionalFlags.given THEN o.additionalFlags.s ELSE <<>>
            driven == o.vmDriver.given /\ o.vmDriver.s # <<>>
            driver == IF driven THEN S_space \o S_vmDriverEq \o o.vmDriver.s \o S_space
                      ELSE <<>>
        IN  /\ call[p].shell.cmd = context.binPath \o S_space \o flags \o driver \o S_start
            /\ ~driven =>
                (Contains(call[p].shell.cmd, S_vmDriverEq) <=> Contains(flags, S_vmDriverEq))
            /\ o = MinikubeOptions(Given(S_empty), Given(S_foo)) =>
                StartArguments(p) = S_fooStart
            /\ o = MinikubeOptions(Given(S_hyperkit), Given(S_empty)) =>
                StartArguments(p) = S_hyperkitStart

C8_Witness ==
    \E p \in Calls :
        /\ call[p].shell.kind = "start"
        /\ call[p].options = MinikubeOptions(Given(S_empty), Given(S_foo))

\* C8 as stated: with an empty or absent vmDriver "--vm-driver=" does not
\* occur in the command, and {vmDriver: "", additionalFlags: "--foo"} gives
\* "--foo  start".
C8_AsStated ==
    \A p \in Calls : call[p].shell.kind = "start" =>
        LET o == call[p].options
            driven == o.vmDriver.given /\ o.vmDriver.s # <<>>
        IN  /\ ~driven => ~Contains(call[p].shell.cmd, S_vmDriverEq)
            /\ driven => Contains(call[p].shell.cmd, S_vmDriverEq \o o.vmDriver.s)
            /\ o = MinikubeOptions(Given(S_empty), Given(S_foo)) =>
                StartArguments(p) = S_fooStartTwoSpaces
            /\ o = MinikubeOptions(Given(S_hyperkit), Given(S_empty)) =>
                StartArguments(p) = S_hyperkitStart

\* The step from the current state completes the command of the call of
\* slot p, which waited at the given label.
Completes(p, label) == Top(p) = label /\ ~Active(p)'

Succeeded(sr) == ~sr.rejected /\ sr.code = 0

\* C9: when the start command of a call that no other call overlapped
\* completes, either it exited with 0, one info message is shown and the
\* indicator reads 'minikube-running' and is still shown, or it exited with
\* another code or its execution was rejected, one error message is shown
\* and the indicator is hidden.
C9_StartCompletion ==
    [][\A p \in Calls :
        Completes(p, "start:115") /\ ~call[p].overlapped' =>
            LET sr == call[p].settled.result'
                shown == Messages(NewEvents(p))
            IN  /\ call[p].settled.kind' = "start"
                /\ Len(shown) = 1
                /\ IF Succeeded(sr)
                   THEN /\ shown[1].e = "showInformationMessage"
                        /\ minikubeStatusBarItem' = ItemShows("minikube-running")
                   ELSE /\ shown[1].e = "showErrorMessage"
                        /\ shown[1].x = IF sr.rejected THEN sr.reason ELSE sr.stderr
                        /\ ~minikubeStatusBarItem.shown'
                        /\ minikubeStatusBarItem.text' # "minikube-running"]_vars

C9_Witness ==
    \E p \in Calls :
        /\ Done(p) /\ call[p].settled.kind = "start" /\ ~call[p].overlapped
        /\ Succeeded(call[p].settled.result)
        /\ minikubeStatusBarItem = ItemShows("minikube-running")

\* C10: when the stop command of a call completes, the indicator is hidden
\* whether the command exited with 0, exited with another code or its
\* execution was rejected; one message is shown, an info message on exit
\* code 0 and an error message otherwise.
C10_StopCompletion ==
    [][\A p \in Calls :
        Completes(p, "stop:143") =>
            LET sr == call[p].settled.result'
                shown == Messages(NewEvents(p))
            IN  /\ call[p].settled.kind' = "stop"
                /\ ~minikubeStatusBarItem.shown'
                /\ Len(shown) = 1
                /\ shown[1].e = IF Succeeded(sr) THEN "showInformationMessage"
                                ELSE "showErrorMessage"]_vars

C10_Witness ==
    \E p \in Calls :
        /\ Done(p) /\ call[p].settled.kind = "stop"
        /\ call[p].settled.result.rejected
        /\ ~minikubeStatusBarItem.shown

\* The checkPresent the call of slot p began with has returned.
PresenceChecked(p) == call[p].op # "none" /\ Top(p) # "checkPresent:180"

\* The call of slot p found the binary absent.
FoundAbsent(p) == PresenceChecked(p) /\ ~call[p].present

AllExecs(log) == SelectSeq(log, LAMBDA ev : ev.e = "exec")
Alerts(log) == SelectSeq(log, LAMBDA ev : ev.e = "alertNoBin")

\* C11: a status call that finds the binary absent has consulted the
\* locator once, in Silent mode, without an alert to the user; it executes
\* no shell command and fails with the error 'minikube executable could not
\* be found!'.
C11_StatusWhenAbsent ==
    \A p \in Calls : call[p].op = "status" /\ FoundAbsent(p) =>
        /\ LocatorCalls(call[p].log) = <<Event("checkForBinary", Silent, <<>>)>>
        /\ Alerts(call[p].log) = <<>>
        /\ AllExecs(call[p].log) = <<>>
        /\ call[p].shell = NoShell
        /\ Top(p) \in {"status:158", "status:75", ""}
        /\ Top(p) # "status:158" =>
             call[p].status =
                 Thrown("Error", "minikube executable could not be found!", <<>>)
        /\ Done(p) => call[p].task = "rejected"

C11_Witness ==
    \E p \in Calls :
        /\ call[p].op = "status" /\ FoundAbsent(p) /\ Done(p)
        /\ call[p].task = "rejected"

\* C12: an isRunnable call that finds the binary absent has consulted the
\* locator in Alert mode, runs no help command and returns the failure
\* 'Minikube is not installed'; one that finds it present runs the help
\* command exactly once and, when that yields an exit code, returns success
\* exactly when the code is 0, whatever stdout and stderr are.
C12_IsRunnable ==
    \A p \in Calls : call[p].op = "isRunnable" /\ PresenceChecked(p) =>
        IF ~call[p].present
        THEN /\ LocatorCalls(call[p].log) = <<Event("checkForBinary", Alert, <<>>)>>
             /\ AllExecs(call[p].log) = <<>>
             /\ call[p].shell = NoShell
             /\ Top(p) \in {"isRunnable:80", ""}
             /\ Done(p) =>
                  /\ call[p].task = "resolved"
                  /\ call[p].diag = [state |-> "returned", succeeded |-> FALSE,
                                     error |-> "Minikube is not installed"]
        ELSE /\ \A i \in 1..Len(LocatorCalls(call[p].log)) :
                  LocatorCalls(call[p].log)[i].m = Alert
             /\ Top(p) # "isRunnable:80" =>
                  /\ Len(AllExecs(call[p].log)) = 1
                  /\ Len(Execs(call[p].log, "help")) = 1
             /\ Top(p) = "isRunnable:84" =>
                  call[p].shell = [kind |-> "help", cmd |-> context.binPath \o S_help]
             /\ Done(p) /\ ~call[p].settled.result.rejected =>
                  /\ call[p].settled.kind = "help"
                  /\ call[p].task = "resolved"
                  /\ call[p].diag.state = "returned"
                  /\ call[p].diag.succeeded <=> call[p].settled.result.code = 0

C12_Witness ==
    \E p \in Calls :
        /\ call[p].op = "isRunnable" /\ Done(p) /\ call[p].present
        /\ call[p].settled.result = ShellResult(0, S_empty, S_exitStatus)
        /\ call[p].diag.succeeded

Creations(log) == SelectSeq(log, LAMBDA ev : ev.e = "createStatusBarItem")

\* C13: a start or stop call that finds the binary absent returns without
\* touching the status bar item (it is not created, its text and visibility
\* are as they were), without a status query and without a start or stop
\* command.
C13_AbsentLeavesIndicator ==
    \A p \in Calls : call[p].op \in {"start", "stop"} /\ FoundAbsent(p) =>
        /\ Top(p) \in {"start:98", "stop:130", ""}
        /\ Creations(call[p].log) = <<>>
        /\ ItemEvents(call[p].log) = <<>>
        /\ minikubeStatusBarItem = [created |-> FALSE, text |-> "", shown |-> FALSE]
        /\ AllExecs(call[p].log) = <<>>
        /\ call[p].shell = NoShell
        /\ call[p].status = NoStatus
        /\ Messages(call[p].log) = <<>>
        /\ Done(p) => call[p].task = "resolved"

C13_Witness ==
    \E p \in Calls :
        /\ call[p].op = "stop" /\ FoundAbsent(p) /\ Done(p)
        /\ ~minikubeStatusBarItem.created

\* The item events and executions of a log, in order.
Proceedings(log) == SelectSeq(log, LAMBDA ev : IsItemEvent(ev) \/ ev.e = "exec")

\* The locator, when the call consulted it, was the first thing it did.
LocatorFirst(log) == \A i \in 1..Len(log) : log[i].e = "checkForBinary" => i = 1

\* The step from the current state issues the command of the given kind
\* for the call of slot p.
Launches(p, kind) == call[p].shell.kind # kind /\ call[p].shell.kind' = kind

\* The call of slot p, of operation o, has checked presence, then set the
\* item to the text and shown it, then queried the status, which returned
\* the given running; nothing else was executed or done to the item.
Prechecked(p, o, text, running) ==
    /\ call[p].op = o
    /\ call[p].present
    /\ LocatorFirst(call[p].log)
    /\ Proceedings(call[p].log) = SetAndShow(text) \o <<ExecEvent("status")>>
    /\ call[p].settled.kind = "status"
    /\ StatusReturned(p)
    /\ call[p].status.info.running = running

\* C14: a start command is issued only by a start call whose own status
\* query returned running = false, and a stop command only by a stop call
\* whose own status query returned running = true; before the command the
\* call has, in this order, checked presence, set the item to its
\* transitional text and shown it, and queried the status.
C14_CommandAfterPrecheck ==
    [][\A p \in Calls :
        /\ Launches(p, "start") =>
            /\ Top(p) = "start:105"
            /\ Prechecked(p, "start", "minikube-starting", FALSE)
            /\ NewEvents(p) = <<ExecEvent("start")>>
        /\ Launches(p, "stop") =>
            /\ Top(p) = "stop:137"
            /\ Prechecked(p, "stop", "minikube-stopping", TRUE)
            /\ NewEvents(p) = <<ExecEvent("stop")>>
        /\ Len(Execs(call[p].log', "start")) > Len(Execs(call[p].log, "start")) =>
            Launches(p, "start")
        /\ Len(Execs(call[p].log', "stop")) > Len(Execs(call[p].log, "stop")) =>
            Launches(p, "stop")]_vars

C14_Witness ==
    \E p \in Calls :
        /\ call[p].shell.kind = "stop"
        /\ call[p].status.info.running
        /\ LocatorCalls(call[p].log) # <<>>
        /\ Proceedings(call[p].log) =
             SetAndShow("minikube-stopping") \o <<ExecEvent("status"), ExecEvent("stop")>>

CommandLabels == {"start:115", "stop:143"}

TransitionalText(o) == IF o = "start" THEN "minikube-starting" ELSE "minikube-stopping"

\* C15: the promise of a start or stop call is pending exactly while the
\* call is at its presence check or status precheck; it is resolved in the
\* step that launches the command and does not wait for the command to
\* complete. While the command is in flight the promise is resolved, the
\* call has shown no message and, with no other call around, the indicator
\* is shown with the transitional text.
C15_TaskResolvesAtLaunch ==
    \A p \in Calls : call[p].op \in {"start", "stop"} =>
        /\ call[p].task = "pending" <=> Active(p) /\ Top(p) \notin CommandLabels
        /\ Top(p) \in CommandLabels =>
            /\ call[p].task = "resolved"
            /\ call[p].shell.kind = call[p].op
            /\ Messages(call[p].log) = <<>>
            /\ ~call[p].overlapped =>
                 minikubeStatusBarItem = ItemShows(TransitionalText(call[p].op))

C15_Witness ==
    \E p \in Calls :
        /\ call[p].op = "start" /\ Top(p) = "start:115"
        /\ call[p].task = "resolved"
        /\ Messages(call[p].log) = <<>>
        /\ minikubeStatusBarItem = ItemShows("minikube-starting")

\* The call of slot p is a start or stop that has set the item to its
\* transitional text and shown it, and has done nothing else to it.
OnlySetAndShown(p) ==
    /\ call[p].op \in {"start", "stop"}
    /\ ItemEvents(call[p].log) = SetAndShow(TransitionalText(call[p].op))

\* The command of the call of slot p is the only one in flight.
OnlyCommandInFlight(p) ==
    /\ Top(p) \in CommandLabels
    /\ \A r \in Calls \ {p} : call[r].shell = NoShell

\* C16: start and stop calls share the one indicator. While the command of
\* a call that no other call overlapped is in flight, the indicator shows
\* the transitional text of that call; beside another call that has set
\* and shown the indicator too, it shows the text of either of the two, as
\* their steps interleaved.
C16_IndicatorRace ==
    \A p \in Calls : Top(p) \in CommandLabels =>
        /\ ~call[p].overlapped =>
             minikubeStatusBarItem = ItemShows(TransitionalText(call[p].op))
        /\ \A q \in Calls \ {p} :
             /\ OnlySetAndShown(q)
             /\ \A r \in Calls \ {p, q} : call[r].op = "none"
             => minikubeStatusBarItem \in
                    {ItemShows(TransitionalText(call[p].op)),
                     ItemShows(TransitionalText(call[q].op))}

\* The indicator reads 'minikube-stopping' while the only command in flight
\* is the start command of an overlapping start call.
C16_Witness ==
    \E p \in Calls, q \in Calls :
        /\ call[p].op = "start" /\ OnlyCommandInFlight(p) /\ call[p].overlapped
        /\ call[q].op = "stop" /\ OnlySetAndShown(q)
        /\ minikubeStatusBarItem = ItemShows("minikube-stopping")

\* The same two calls, as far as each went, under the other interleaving.
C16_OtherInterleaving ==
    \E p \in Calls, q \in Calls :
        /\ call[p].op = "start" /\ OnlyCommandInFlight(p)
        /\ call[q].op = "stop" /\ OnlySetAndShown(q)
        /\ minikubeStatusBarItem = ItemShows("minikube-starting")

\* The indicator has left the transitional state.
LeftTransitional ==
    ~minikubeStatusBarItem.shown \/ minikubeStatusBarItem.text = "minikube-running"

\* C17: while the command of a start or stop call is in flight and no other
\* call is made, the indicator is shown with the transitional text and the
\* only step there is, is the completion of the command: the adapter has no
\* timeout and no cancellation, so the indicator stays until then. When
\* every launched command completes, every call that launched one comes to
\* a state where the indicator is hidden or reads 'minikube-running'.
C17_HangsUntilCompletion ==
    /\ [][\A p \in Calls : Top(p) \in CommandLabels =>
            /\ minikubeStatusBarItem = ItemShows(TransitionalText(call[p].op))
            /\ Completes(p, Top(p))
            /\ call[p].settled.kind' = call[p].op]_vars
    /\ \A p \in Calls : (Top(p) \in CommandLabels) ~> (Done(p) /\ LeftTransitional)

C17_Witness ==
    \E p \in Calls :
        /\ call[p].op = "start" /\ Done(p)
        /\ call[p].settled.kind = "start"
        /\ ~Succeeded(call[p].settled.result)
        /\ LeftTransitional

\* The start call of slot p acts on the status it was returned.
ActsOnStatus(p) ==
    /\ call[p].op = "start" /\ Top(p) = "start:105" /\ StatusReturned(p)
    /\ Top(p)' # "start:105"

\* C18: the precheck of a start call looks at the status returned to that
\* call only. While the start command of another call is in flight, a start
\* call whose status query returned running = false issues a start command
\* of its own, so that two are in flight at once; it refrains, with the
\* warning, exactly when its own status query returned running = true.
C18_PrecheckDoesNotSerialize ==
    [][\A p \in Calls : \A q \in Calls \ {p} :
        ActsOnStatus(p) /\ call[q].shell.kind = "start" =>
            /\ call[q].shell.kind' = "start"
            /\ IF call[p].status.info.running
               THEN /\ call[p].shell.kind' = "none"
                    /\ NewEvents(p) = AlreadyStartedEvents
               ELSE /\ call[p].shell.kind' = "start"
                    /\ NewEvents(p) = <<ExecEvent("start")>>]_vars

\* Two start commands in flight at once.
C18_Witness ==
    \E p \in Calls : \E q \in Calls \ {p} :
        /\ call[p].shell.kind = "start" /\ call[q].shell.kind = "start"
        /\ call[p].op = "start" /\ call[q].op = "start"
        /\ ~call[p].status.info.running /\ ~call[q].status.info.running

====
